---- MODULE Spec2Model ----
(***************************************************************************)
(* grass: a one-shot job that searches platforms for a keyword, filters    *)
(* out results already stored, stores the new ones and notifies about      *)
(* them.  The model follows bot/bot.go (Bot.Run), main.go (the keyword     *)
(* loop), storage/sqlite.go and storage/dynamodb.go (the two Storers).     *)
(* Every call Bot.Run makes on a Searcher, the Storer or a Notifier is one *)
(* step; a call that can return an error takes its outcome from BOOLEAN.   *)
(***************************************************************************)
EXTENDS Integers, Sequences, FiniteSets, TLC

(***************************************************************************)
(* Bounds of the model.                                                    *)
(***************************************************************************)
\* wall-clock seconds run over 0..MaxTime
MaxTime == 1
\* a Search returns at most MaxResults results
MaxResults == 2

(***************************************************************************)
(* Configuration: the searchers, notifiers and keywords a process is       *)
(* started with.                                                           *)
(***************************************************************************)
\* Platform() of the configured searchers, in configuration order
Searchers == <<"Bluesky", "Fediverse">>

\* the configured notifiers, in configuration order
Notifiers == <<"print", "discord">>

Keywords == {"k1", "k2"}

\* the --keyword lists a process may be started with
KeywordLists == {<<>>, <<"k1">>, <<"k1", "k1">>, <<"k1", "k2">>}

DBTypes == {"sqlite", "dynamodb"}

\* the URLs an upstream platform may answer with; neither Bluesky (an
\* unexpected uri is passed through) nor Fediverse (status.url) restricts
\* them, so one of them is the string DynamoDBStorer uses as the sort key of
\* the watermark
URLs == {"u1", "LastSearchTime"}

\* creation time of the post behind a URL
CreatedAt(u) == IF u = "u1" THEN 0 ELSE MaxTime + 1

Platforms == {Searchers[i] : i \in 1..Len(Searchers)}

Keys == Platforms \X URLs

\* search.SearchResult as built by a searcher for one post
SearchResult(p, k, u) ==
    [Platform |-> p, Keyword |-> k, Title |-> "title", URL |-> u,
     Timestamp |-> CreatedAt(u), Content |-> "content"]

RECURSIVE SeqsUpTo(_, _)
\* all sequences over S of length at most n
SeqsUpTo(S, n) ==
    IF n = 0 THEN {<<>>}
    ELSE LET shorter == SeqsUpTo(S, n - 1)
         IN  shorter \cup {Append(s, x) : s \in {t \in shorter : Len(t) = n - 1}, x \in S}

(***************************************************************************)
(* strconv.FormatInt(n, 10) and strconv.ParseInt(s, 10, 64): DynamoDB      *)
(* stores numbers as decimal strings (sequences of characters here).       *)
(***************************************************************************)
Digits == <<"0", "1", "2", "3", "4", "5", "6", "7", "8", "9">>

RECURSIVE FormatNat(_)
FormatNat(n) ==
    IF n < 10 THEN <<Digits[n + 1]>>
    ELSE Append(FormatNat(n \div 10), Digits[(n % 10) + 1])

FormatInt(n) == IF n < 0 THEN <<"-">> \o FormatNat(0 - n) ELSE FormatNat(n)

DigitValue(c) == CHOOSE d \in 0..9 : Digits[d + 1] = c

RECURSIVE ParseNat(_)
ParseNat(s) ==
    IF Len(s) = 0 THEN 0
    ELSE 10 * ParseNat(SubSeq(s, 1, Len(s) - 1)) + DigitValue(s[Len(s)])

ParseInt(s) == IF s[1] = "-" THEN 0 - ParseNat(Tail(s)) ELSE ParseNat(s)

(***************************************************************************)
(* storage/sqlite.go: two tables, each a set of rows.                      *)
(*   search_results(Platform, Keyword, Title, URL PRIMARY KEY, Timestamp)  *)
(*   last_search_time(Platform PRIMARY KEY, LastSearchTime)                *)
(***************************************************************************)
\* SELECT EXISTS(SELECT 1 FROM search_results WHERE Platform = ? AND URL = ?)
SQLiteExists(tbl, platform, url) ==
    \E row \in tbl : row.Platform = platform /\ row.URL = url

\* INSERT INTO search_results ... ON CONFLICT(URL) DO NOTHING
SQLiteSave(tbl, result) ==
    IF \E row \in tbl : row.URL = result.URL
    THEN tbl
    ELSE tbl \cup {[Platform |-> result.Platform, Keyword |-> result.Keyword,
                    Title |-> result.Title, URL |-> result.URL,
                    Timestamp |-> result.Timestamp]}

\* SELECT LastSearchTime FROM last_search_time WHERE Platform = ?; no row: 0
SQLiteGetLastSearchTime(tbl, platform) ==
    IF \E row \in tbl : row.Platform = platform
    THEN (CHOOSE row \in tbl : row.Platform = platform).LastSearchTime
    ELSE 0

\* faulty variant: INSERT ... ON CONFLICT(Platform) DO NOTHING
SQLiteSetLastSearchTime_DoNothing(tbl, platform, epochTime) ==
    IF \E row \in tbl : row.Platform = platform
    THEN tbl
    ELSE tbl \cup {[Platform |-> platform, LastSearchTime |-> epochTime]}

\* INSERT ... ON CONFLICT(Platform) DO UPDATE SET LastSearchTime = excluded.LastSearchTime
SQLiteSetLastSearchTime(tbl, platform, epochTime) ==
    {row \in tbl : row.Platform # platform}
        \cup {[Platform |-> platform, LastSearchTime |-> epochTime]}

(***************************************************************************)
(* storage/dynamodb.go: one table of items keyed by (Platform, SortKey),   *)
(* see deploy/main.tf.  A result is stored under SortKey = URL, a          *)
(* watermark under SortKey = "LastSearchTime".                             *)
(***************************************************************************)
\* PutItem: the item replaces any item with the same key
PutItem(tbl, item) ==
    {i \in tbl : ~(i.Platform = item.Platform /\ i.SortKey = item.SortKey)} \cup {item}

\* GetItem: the set holding the item with that key, empty when there is none
GetItem(tbl, platform, sortKey) ==
    {i \in tbl : i.Platform = platform /\ i.SortKey = sortKey}

DynamoExists(tbl, platform, url) == GetItem(tbl, platform, url) # {}

DynamoSave(tbl, result) ==
    PutItem(tbl, [Platform |-> result.Platform, SortKey |-> result.URL,
                  Keyword |-> result.Keyword, Title |-> result.Title,
                  Timestamp |-> FormatInt(result.Timestamp)])

DynamoGetLastSearchTime(tbl, platform) ==
    LET got == GetItem(tbl, platform, "LastSearchTime")
    IN  IF got = {} THEN 0 ELSE ParseInt((CHOOSE i \in got : TRUE).Timestamp)

DynamoSetLastSearchTime(tbl, platform, epochTime) ==
    PutItem(tbl, [Platform |-> platform, SortKey |-> "LastSearchTime",
                  Timestamp |-> FormatInt(epochTime)])

(***************************************************************************)
(* package search: the Searcher implementations.  A Search call sends one  *)
(* request to the platform; what the platform answers is a record          *)
(*   status   "transport" (no response), "429", "500" or "200"             *)
(*   parsable whether the body of a 200 decodes                            *)
(*   posts    the posts of a decoded body, each named by its id            *)
(* The credentials the constructors read from the environment are set.     *)
(***************************************************************************)
Variants == {"HackerNews", "Reddit", "Bluesky", "YouTube", "Fediverse"}

\* NewBlueskySearcher: maxRetries := 3
maxRetries == 3

\* NewBlueskySearcher: retryDelay := time.Duration(5*(i+1)) * time.Second
retryDelaySeconds == 5

\* what bsky.social answers to createSession
AuthAnswers == {"200", "429", "401", "transport", "badbody"}

\* BlueskySearcher.authenticate: the error it returns
authenticate(answer) ==
    CASE answer = "200" -> "nil"
      [] answer = "429" -> "status code: 429"
      [] answer = "401" -> "authentication failed with status code: 401"
      [] answer = "transport" -> "Post: dial tcp: connection refused"
      [] answer = "badbody" -> "failed to parse access token"

\* strings.Contains(err.Error(), "status code: 429")
IsRateLimit(err) == err = "status code: 429"

FailedAnswers ==
    {[status |-> st, parsable |-> FALSE, posts |-> <<>>] :
        st \in {"transport", "429", "500", "200"}}

SearchAnswers ==
    FailedAnswers \cup
    {[status |-> "200", parsable |-> TRUE, posts |-> ps] : ps \in SeqsUpTo(URLs, MaxResults)}

\* the posts of a sequence created after the given time, in order
Newer(posts, afterEpochSecs) ==
    LET after(u) == CreatedAt(u) > afterEpochSecs
    IN  SelectSeq(posts, after)

\* the at:// uri of a Bluesky post, split at "/"
AtURI(u) == <<"at:", "", "did:plc:author", "app.bsky.feed.post", u>>

\* convertAtURLToHTTPS, on the parts of the uri and giving the parts of the URL
convertAtURLToHTTPS(parts) ==
    IF Len(parts) < 5 THEN parts
    ELSE <<"https:", "", "bsky.app", "profile", parts[3], "post", parts[5]>>

\* the URL a searcher gives the result built from post u
ResultURL(v, u) ==
    CASE v = "HackerNews" -> <<"https:", "", "news.ycombinator.com", "item?id=" , u>>
      [] v = "Reddit" -> <<"https:", "", "www.reddit.com", u>>
      [] v = "YouTube" -> <<"https:", "", "www.youtube.com", "watch?v=", u>>
      [] v = "Bluesky" -> convertAtURLToHTTPS(AtURI(u))
      [] v = "Fediverse" -> <<u>>

\* the creation times of the posts hits
CreatedTimes(hits) == [i \in 1..Len(hits) |-> CreatedAt(hits[i])]

\* time.Now().Unix(), read once, for each of the posts hits
NowForAll(hits, clock) == [i \in 1..Len(hits) |-> clock]

\* the results built from the posts hits, the i-th with Timestamp stamps[i]
Built(v, keyword, hits, stamps) ==
    [i \in 1..Len(hits) |->
        [Platform |-> v, Keyword |-> keyword, Title |-> "title",
         URL |-> ResultURL(v, hits[i]), Timestamp |-> stamps[i],
         Content |-> IF v \in {"Reddit", "Bluesky"} THEN "" ELSE "content"]]

\* what a Search call gives back: the results, the posts they were built
\* from, whether err is not nil, whether a request was sent
Returned(results, hits, err, contacted) ==
    [results |-> results, hits |-> hits, err |-> err, contacted |-> contacted]

\* HackerNewsSearcher.Search: the request carries numericFilters=created_at_i>N,
\* which the platform applies; every hit is stamped time.Now()
HackerNewsSearch(keyword, afterEpochSecs, answer, clock) ==
    IF answer.status # "200" \/ ~answer.parsable
    THEN Returned(<<>>, <<>>, TRUE, TRUE)
    ELSE LET hits == Newer(answer.posts, afterEpochSecs)
         IN  Returned(Built("HackerNews", keyword, hits, NowForAll(hits, clock)),
                      hits, FALSE, TRUE)

\* RedditSearcher.Search: filters on created_utc, stamps time.Now()
RedditSearch(keyword, afterEpochSecs, answer, clock) ==
    IF answer.status # "200" \/ ~answer.parsable
    THEN Returned(<<>>, <<>>, TRUE, TRUE)
    ELSE LET hits == Newer(answer.posts, afterEpochSecs)
         IN  Returned(Built("Reddit", keyword, hits, NowForAll(hits, clock)),
                      hits, FALSE, TRUE)

\* YouTubeSearcher.Search: filters on publishedAt and stamps it
YouTubeSearch(keyword, afterEpochSecs, answer) ==
    IF answer.status # "200" \/ ~answer.parsable
    THEN Returned(<<>>, <<>>, TRUE, TRUE)
    ELSE LET hits == Newer(answer.posts, afterEpochSecs)
         IN  Returned(Built("YouTube", keyword, hits, CreatedTimes(hits)), hits, FALSE, TRUE)

\* BlueskySearcher.Search: nothing is sent without an access token; only a
\* transport failure is returned as an error
BlueskySearch(token, keyword, afterEpochSecs, answer) ==
    IF token = "" THEN Returned(<<>>, <<>>, FALSE, FALSE)
    ELSE IF answer.status = "transport" THEN Returned(<<>>, <<>>, TRUE, TRUE)
    ELSE IF answer.status # "200" \/ ~answer.parsable THEN Returned(<<>>, <<>>, FALSE, TRUE)
    ELSE LET hits == Newer(answer.posts, afterEpochSecs)
         IN  Returned(Built("Bluesky", keyword, hits, CreatedTimes(hits)), hits, FALSE, TRUE)

\* FediverseSearcher.Search with one instance: an instance that fails is
\* skipped, err is always nil
FediverseSearch(keyword, afterEpochSecs, answer) ==
    IF answer.status # "200" \/ ~answer.parsable THEN Returned(<<>>, <<>>, FALSE, TRUE)
    ELSE LET hits == Newer(answer.posts, afterEpochSecs)
         IN  Returned(Built("Fediverse", keyword, hits, CreatedTimes(hits)), hits, FALSE, TRUE)

\* Searcher.Search of the variant v
Search(v, token, keyword, afterEpochSecs, answer, clock) ==
    CASE v = "HackerNews" -> HackerNewsSearch(keyword, afterEpochSecs, answer, clock)
      [] v = "Reddit" -> RedditSearch(keyword, afterEpochSecs, answer, clock)
      [] v = "YouTube" -> YouTubeSearch(keyword, afterEpochSecs, answer)
      [] v = "Bluesky" -> BlueskySearch(token, keyword, afterEpochSecs, answer)
      [] v = "Fediverse" -> FediverseSearch(keyword, afterEpochSecs, answer)

(***************************************************************************)
(* State.                                                                  *)
(***************************************************************************)
VARIABLES
    dbType,            \* --db: which Storer main built
    search_results,    \* SQLite table search_results
    last_search_time,  \* SQLite table last_search_time
    table,             \* the DynamoDB table
    now,               \* wall clock, time.Now().Unix()
    pc,                \* where the process is: "boot", "main", "exit", "turn", "search",
                       \* "result", "save", "notify"
    keywords,          \* main: *keywords
    ki,                \* main: index of the keyword being run
    si,                \* Run: index of provider in b.Searchers
    lastSearchTime,    \* Run: local lastSearchTime
    results,           \* Run: local results
    ri,                \* Run: index of result in results
    ni,                \* Run: index of notifier in b.Notifiers
    track,             \* the bookkeeping kept: "runs" (cur, prev, notifyCount), "clock" (turnStart),
                       \* "writes" (processMarks), "bots" (watermarksWritten)
    lastCall,          \* the last call made on a collaborator and its outcome
    turnCalls,         \* calls of the current turn that are not about one result
    resultCalls,       \* per result of the current turn, the calls made for it
    notifyLog,         \* Notify calls made for the current result, with outcome
    turnsStarted,      \* platforms whose turn began in the current Run
    runsInvoked,       \* keywords Run was invoked with in the current process
    markAtRunStart,    \* GetLastSearchTime of every platform when the Run began
    turnStart,         \* wall clock when the current turn began
    everSet,           \* platforms for which a SetLastSearchTime has ever returned nil
    processMarks,      \* per platform: GetLastSearchTime when the process started, and
                       \* the value the process last wrote with success (-1: none)
    cur,               \* keys returned / saved in the current Run
    prev,              \* the same for the Run before it
    notifyCount,       \* Notify calls of the current Run per notifier and key
    variant,           \* the Searcher implementation being built and called
    spc,               \* where its constructor is: "new", "auth", "sleep", "ready", "failed"
    authTry,           \* NewBlueskySearcher: the loop counter i
    accessToken,       \* the searcher's accessToken
    authLog,           \* what the platform answered to each authenticate call
    sleeps,            \* the seconds of each time.Sleep of the constructor
    searchCall,        \* the last Search call: its arguments, the answer, what it returned
    bots,              \* concurrent instances: for each, where its Run is and its locals
    watermarksWritten  \* <<platform, epochTime>> of every SetLastSearchTime that returned nil

storeVars == <<dbType, search_results, last_search_time, table>>
ctlVars == <<pc, keywords, ki, si, lastSearchTime, results, ri, ni, track>>
histVars == <<lastCall, turnCalls, resultCalls, notifyLog, turnsStarted,
              runsInvoked, markAtRunStart, turnStart, everSet, processMarks,
              cur, prev, notifyCount>>
searchVars == <<variant, spc, authTry, accessToken, authLog, sleeps, searchCall>>
botVars == <<bots, watermarksWritten>>
vars == <<storeVars, now, ctlVars, histVars, searchVars, botVars>>

(***************************************************************************)
(* storage.Storer as seen by Bot.Run: the implementation main selected.    *)
(***************************************************************************)
Exists(platform, url) ==
    IF dbType = "sqlite" THEN SQLiteExists(search_results, platform, url)
    ELSE DynamoExists(table, platform, url)

GetLastSearchTime(platform) ==
    IF dbType = "sqlite" THEN SQLiteGetLastSearchTime(last_search_time, platform)
    ELSE DynamoGetLastSearchTime(table, platform)

\* the store after a Save that returned nil
Save(result) ==
    IF dbType = "sqlite"
    THEN /\ search_results' = SQLiteSave(search_results, result)
         /\ UNCHANGED <<dbType, last_search_time, table>>
    ELSE /\ table' = DynamoSave(table, result)
         /\ UNCHANGED <<dbType, search_results, last_search_time>>

\* the store after a SetLastSearchTime that returned nil
SetLastSearchTime(platform, epochTime) ==
    IF dbType = "sqlite"
    THEN /\ last_search_time' = SQLiteSetLastSearchTime(last_search_time, platform, epochTime)
         /\ UNCHANGED <<dbType, search_results, table>>
    ELSE /\ table' = DynamoSetLastSearchTime(table, platform, epochTime)
         /\ UNCHANGED <<dbType, search_results, last_search_time>>

(***************************************************************************)
(* Bookkeeping of calls.                                                   *)
(***************************************************************************)
NoCall == [op |-> "none", err |-> FALSE, si |-> 0, ri |-> 0, ni |-> 0, arg |-> 0]

Call(op, err, i, arg) == [op |-> op, err |-> err, si |-> si, ri |-> i, ni |-> 0, arg |-> arg]

KeyOf(result) == <<result.Platform, result.URL>>

NoRun == [keyword |-> "", returned |-> {}, savedOK |-> {}]

NoNotify == [n \in 1..Len(Notifiers), k \in Keys |-> 0]

\* the watermark the store holds for every platform when the process starts:
\* none (-1, a fresh store), or the one an earlier invocation wrote on a host
\* whose clock read MaxTime
InitMarks == {-1, MaxTime}

\* epoch values a caller may write: small ones and ones of several digits
Epochs == (0..MaxTime) \cup {12, 1700000000}

\* the Orchestrator instances that run against one store at the same time
Bots == {"bot1", "bot2"}

\* an instance whose Run has not been called
IdleBot == [pc |-> "idle", keyword |-> "", si |-> 1, lastSearchTime |-> 0,
            results |-> <<>>, ri |-> 1]

\* no watermark read or written by the process yet
NoMarks == [atStart |-> [p \in Platforms |-> 0], written |-> [p \in Platforms |-> -1]]

NoSearch ==
    [made |-> FALSE, keyword |-> "", afterEpochSecs |-> 0,
     answer |-> [status |-> "", parsable |-> FALSE, posts |-> <<>>],
     clock |-> 0, out |-> Returned(<<>>, <<>>, FALSE, FALSE)]

Start(t, marks) ==
    /\ track = t
    /\ dbType \in DBTypes
    /\ search_results = {}
    /\ \E m \in marks :
          /\ last_search_time =
                IF dbType = "sqlite" /\ m >= 0
                THEN {[Platform |-> p, LastSearchTime |-> m] : p \in Platforms}
                ELSE {}
          /\ table =
                IF dbType = "dynamodb" /\ m >= 0
                THEN {[Platform |-> p, SortKey |-> "LastSearchTime", Timestamp |-> FormatInt(m)] :
                         p \in Platforms}
                ELSE {}
          /\ everSet = IF m >= 0 THEN Platforms ELSE {}
          /\ watermarksWritten =
                IF "bots" \in t /\ m >= 0 THEN {<<p, m>> : p \in Platforms} ELSE {}
    /\ now = 0
    /\ pc = "boot"
    /\ keywords = <<>>
    /\ ki = 1
    /\ si = 1
    /\ lastSearchTime = 0
    /\ results = <<>>
    /\ ri = 1
    /\ ni = 1
    /\ lastCall = NoCall
    /\ turnCalls = <<>>
    /\ resultCalls = <<>>
    /\ notifyLog = <<>>
    /\ turnsStarted = <<>>
    /\ runsInvoked = <<>>
    /\ markAtRunStart = [p \in Platforms |-> 0]
    /\ turnStart = 0
    /\ processMarks = NoMarks
    /\ cur = NoRun
    /\ prev = NoRun
    /\ notifyCount = NoNotify
    /\ variant = ""
    /\ spc = "new"
    /\ authTry = 0
    /\ accessToken = ""
    /\ authLog = <<>>
    /\ sleeps = <<>>
    /\ searchCall = NoSearch
    /\ bots = [b \in Bots |-> IdleBot]

Init == Start({}, InitMarks)

(***************************************************************************)
(* main: parse the flags, build the bot, run it for every keyword.         *)
(***************************************************************************)
Main_Start ==
    /\ pc = "boot"
    /\ \E kws \in KeywordLists :
          keywords' = kws
    /\ ki' = 1
    /\ pc' = "main"
    /\ runsInvoked' = <<>>
    /\ processMarks' = IF "writes" \in track
                       THEN [processMarks EXCEPT !.atStart = [p \in Platforms |-> GetLastSearchTime(p)]]
                       ELSE processMarks
    /\ UNCHANGED <<searchVars, botVars, everSet,
                   storeVars, now, si, lastSearchTime, results, ri, ni, track,
                   lastCall, turnCalls, resultCalls, notifyLog, turnsStarted,
                   markAtRunStart, turnStart, cur, prev, notifyCount>>

\* for _, keyword := range *keywords { b.Run(keyword) }: entry into Run
Main_Run ==
    /\ pc = "main"
    /\ ki <= Len(keywords)
    /\ pc' = "turn"
    /\ si' = 1
    /\ runsInvoked' = Append(runsInvoked, keywords[ki])
    /\ turnsStarted' = <<>>
    /\ turnCalls' = <<>>
    /\ resultCalls' = <<>>
    /\ notifyLog' = <<>>
    /\ lastCall' = NoCall
    /\ markAtRunStart' = [p \in Platforms |-> GetLastSearchTime(p)]
    /\ IF "runs" \in track
       THEN /\ prev' = cur
            /\ cur' = [keyword |-> keywords[ki], returned |-> {}, savedOK |-> {}]
            /\ notifyCount' = NoNotify
       ELSE UNCHANGED <<prev, cur, notifyCount>>
    /\ UNCHANGED <<searchVars, botVars, everSet, processMarks,
                   storeVars, now, keywords, ki, lastSearchTime, results, ri, ni, track,
                   turnStart>>

\* the keyword loop is over: main returns
Main_Exit ==
    /\ pc = "main"
    /\ ki > Len(keywords)
    /\ pc' = "exit"
    /\ results' = <<>>
    /\ lastCall' = NoCall
    /\ turnsStarted' = <<>>
    /\ markAtRunStart' = [p \in Platforms |-> 0]
    /\ cur' = NoRun
    /\ prev' = NoRun
    /\ notifyCount' = NoNotify
    /\ processMarks' = NoMarks
    /\ UNCHANGED <<searchVars, botVars, everSet,
                   storeVars, now, keywords, ki, si, lastSearchTime, ri, ni, track,
                   turnCalls, resultCalls, notifyLog, runsInvoked, turnStart>>

(***************************************************************************)
(* Bot.Run, one step per call.                                             *)
(***************************************************************************)
\* `continue` of the provider loop: on to the next searcher
NextProvider ==
    /\ si' = si + 1
    /\ pc' = "turn"

\* `continue` of the result loop: on to the next result
NextResult ==
    /\ ri' = ri + 1
    /\ pc' = "result"

\* faulty variant: the error of GetLastSearchTime is logged but the turn goes on
Run_GetLastSearchTime_Err_NoContinue ==
    /\ lastCall' = Call("GetLastSearchTime", TRUE, 0, 0)
    /\ turnCalls' = <<"GetLastSearchTime:err">>
    /\ lastSearchTime' = 0
    /\ pc' = "search"
    /\ UNCHANGED <<si>>

\* lastSearchTime, err := b.Storer.GetLastSearchTime(provider.Platform()); err != nil
\* (both Storers return 0 with the error)
Run_GetLastSearchTime_Err ==
    /\ lastCall' = Call("GetLastSearchTime", TRUE, 0, 0)
    /\ turnCalls' = <<"GetLastSearchTime:err">>
    /\ NextProvider
    /\ lastSearchTime' = 0

\* faulty variant: every Run of a process searches from the watermark the
\* store held when the process started
Run_GetLastSearchTime_Ok_ProcessStart ==
    /\ lastCall' = Call("GetLastSearchTime", FALSE, 0, processMarks.atStart[Searchers[si]])
    /\ turnCalls' = <<"GetLastSearchTime">>
    /\ lastSearchTime' = processMarks.atStart[Searchers[si]]
    /\ pc' = "search"
    /\ UNCHANGED <<si>>

\* ... err == nil
Run_GetLastSearchTime_Ok ==
    /\ lastCall' = Call("GetLastSearchTime", FALSE, 0, GetLastSearchTime(Searchers[si]))
    /\ turnCalls' = <<"GetLastSearchTime">>
    /\ lastSearchTime' = GetLastSearchTime(Searchers[si])
    /\ pc' = "search"
    /\ UNCHANGED <<si>>

\* head of the provider loop with a provider left: its turn begins
Run_GetLastSearchTime ==
    /\ pc = "turn"
    /\ si <= Len(Searchers)
    /\ turnsStarted' = Append(turnsStarted, Searchers[si])
    /\ turnStart' = IF "clock" \in track THEN now ELSE 0
    /\ resultCalls' = <<>>
    /\ notifyLog' = <<>>
    /\ results' = <<>>
    /\ \/ Run_GetLastSearchTime_Err
       \/ Run_GetLastSearchTime_Ok
    /\ UNCHANGED <<searchVars, botVars, everSet, processMarks,
                   storeVars, now, keywords, ki, ri, ni, track,
                   runsInvoked, markAtRunStart, cur, prev, notifyCount>>

\* faulty variant: a failed Search returns from Run instead of continuing
Run_Search_Err_Return ==
    /\ lastCall' = Call("Search", TRUE, 0, lastSearchTime)
    /\ turnCalls' = Append(turnCalls, "Search:err")
    /\ si' = Len(Searchers) + 1
    /\ pc' = "turn"
    /\ UNCHANGED <<results, ri, cur, resultCalls>>

\* faulty variant: a failed Search falls through to the watermark write
Run_Search_Err_SetsWatermark ==
    /\ lastCall' = Call("Search", TRUE, 0, lastSearchTime)
    /\ turnCalls' = Append(turnCalls, "Search:err")
    /\ results' = <<>>
    /\ ri' = 1
    /\ pc' = "result"
    /\ UNCHANGED <<si, cur, resultCalls>>

\* Run calls its searchers through the search.Searcher interface, which
\* allows an error and any results; the steps below take every outcome the
\* interface allows, whatever the implementation behind it.
\* results, err := provider.Search(keyword, lastSearchTime); err != nil
Run_Search_Err ==
    /\ lastCall' = Call("Search", TRUE, 0, lastSearchTime)
    /\ turnCalls' = Append(turnCalls, "Search:err")
    /\ NextProvider
    /\ UNCHANGED <<results, ri, cur, resultCalls>>

\* faulty variant: a Search without results ends the turn at once
Run_Search_Ok_SkipEmpty ==
    /\ lastCall' = Call("Search", FALSE, 0, lastSearchTime)
    /\ turnCalls' = Append(turnCalls, "Search")
    /\ \E urls \in SeqsUpTo(URLs, MaxResults) :
          /\ results' = [i \in 1..Len(urls) |-> SearchResult(Searchers[si], keywords[ki], urls[i])]
          /\ cur' = IF "runs" \in track
                    THEN [cur EXCEPT !.returned = @ \cup {<<Searchers[si], urls[i]>> : i \in 1..Len(urls)}]
                    ELSE cur
          /\ resultCalls' = [i \in 1..Len(urls) |-> <<>>]
          /\ IF Len(urls) = 0 THEN NextProvider ELSE pc' = "result" /\ UNCHANGED si
    /\ ri' = 1

\* ... err == nil: any results for this platform and keyword
Run_Search_Ok ==
    /\ lastCall' = Call("Search", FALSE, 0, lastSearchTime)
    /\ turnCalls' = Append(turnCalls, "Search")
    /\ \E urls \in SeqsUpTo(URLs, MaxResults) :
          /\ results' = [i \in 1..Len(urls) |-> SearchResult(Searchers[si], keywords[ki], urls[i])]
          /\ cur' = IF "runs" \in track
                    THEN [cur EXCEPT !.returned = @ \cup {<<Searchers[si], urls[i]>> : i \in 1..Len(urls)}]
                    ELSE cur
          /\ resultCalls' = [i \in 1..Len(urls) |-> <<>>]
    /\ ri' = 1
    /\ pc' = "result"
    /\ UNCHANGED <<si>>

Run_Search ==
    /\ pc = "search"
    /\ \/ Run_Search_Err
       \/ Run_Search_Ok
    /\ UNCHANGED <<searchVars, botVars, everSet, processMarks,
                   storeVars, now, keywords, ki, lastSearchTime, ni, track,
                   notifyLog, turnsStarted, runsInvoked, markAtRunStart, turnStart, prev,
                   notifyCount>>

\* a Searcher that filters and stamps as YouTube, Bluesky and Fediverse do:
\* every result is a post created after lastSearchTime and not after the
\* present moment, with Timestamp its creation time
Run_Search_Ok_Strict ==
    /\ lastCall' = Call("Search", FALSE, 0, lastSearchTime)
    /\ turnCalls' = Append(turnCalls, "Search")
    /\ \E urls \in SeqsUpTo(URLs, MaxResults) :
          \E created \in [1..Len(urls) -> (lastSearchTime + 1)..now] :
              /\ results' = [i \in 1..Len(urls) |->
                                [SearchResult(Searchers[si], keywords[ki], urls[i])
                                    EXCEPT !.Timestamp = created[i]]]
              /\ cur' = IF "runs" \in track
                        THEN [cur EXCEPT !.returned = @ \cup {<<Searchers[si], urls[i]>> : i \in 1..Len(urls)}]
                        ELSE cur
              /\ resultCalls' = [i \in 1..Len(urls) |-> <<>>]
    /\ ri' = 1
    /\ pc' = "result"
    /\ UNCHANGED <<si>>

Run_Search_Strict ==
    /\ pc = "search"
    /\ \/ Run_Search_Err
       \/ Run_Search_Ok_Strict
    /\ UNCHANGED <<searchVars, botVars, everSet, processMarks,
                   storeVars, now, keywords, ki, lastSearchTime, ni, track,
                   notifyLog, turnsStarted, runsInvoked, markAtRunStart, turnStart, prev,
                   notifyCount>>

\* faulty variant: a failed Exists is taken as "does not exist"
Run_Exists_Err_NoContinue ==
    /\ lastCall' = Call("Exists", TRUE, ri, 0)
    /\ resultCalls' = [resultCalls EXCEPT ![ri] = Append(@, "Exists:err")]
    /\ pc' = "save"
    /\ UNCHANGED ri

\* exists, err := b.Storer.Exists(result.Platform, result.URL); err != nil
Run_Exists_Err ==
    /\ lastCall' = Call("Exists", TRUE, ri, 0)
    /\ resultCalls' = [resultCalls EXCEPT ![ri] = Append(@, "Exists:err")]
    /\ NextResult

\* faulty variant: a result that exists is saved and notified again
Run_Exists_Ok_SaveAnyway ==
    /\ lastCall' = Call("Exists", FALSE, ri, 0)
    /\ resultCalls' = [resultCalls EXCEPT ![ri] =
                          Append(@, IF Exists(results[ri].Platform, results[ri].URL)
                                    THEN "Exists:true" ELSE "Exists:false")]
    /\ pc' = "save"
    /\ UNCHANGED ri

\* faulty variant: Run drops a result that is not newer than the watermark
Run_Exists_Ok_Refilter ==
    IF results[ri].Timestamp <= lastSearchTime
    THEN /\ UNCHANGED <<lastCall, resultCalls>>
         /\ NextResult
    ELSE /\ lastCall' = Call("Exists", FALSE, ri, 0)
         /\ IF Exists(results[ri].Platform, results[ri].URL)
            THEN /\ resultCalls' = [resultCalls EXCEPT ![ri] = Append(@, "Exists:true")]
                 /\ NextResult
            ELSE /\ resultCalls' = [resultCalls EXCEPT ![ri] = Append(@, "Exists:false")]
                 /\ pc' = "save"
                 /\ UNCHANGED ri

\* ... err == nil
Run_Exists_Ok ==
    /\ lastCall' = Call("Exists", FALSE, ri, 0)
    /\ IF Exists(results[ri].Platform, results[ri].URL)
       THEN /\ resultCalls' = [resultCalls EXCEPT ![ri] = Append(@, "Exists:true")]
            /\ NextResult
       ELSE /\ resultCalls' = [resultCalls EXCEPT ![ri] = Append(@, "Exists:false")]
            /\ pc' = "save"
            /\ UNCHANGED ri

\* head of the result loop with a result left
Run_Exists ==
    /\ pc = "result"
    /\ ri <= Len(results)
    /\ notifyLog' = <<>>
    /\ \/ Run_Exists_Err
       \/ Run_Exists_Ok
    /\ UNCHANGED <<searchVars, botVars, everSet, processMarks,
                   storeVars, now, keywords, ki, si, lastSearchTime, results, ni, track,
                   turnCalls, turnsStarted, runsInvoked, markAtRunStart, turnStart,
                   cur, prev, notifyCount>>

\* faulty variant: a failed Save is logged but the notifiers are still called
Run_Save_Err_NoContinue ==
    /\ lastCall' = Call("Save", TRUE, ri, 0)
    /\ resultCalls' = [resultCalls EXCEPT ![ri] = Append(@, "Save:err")]
    /\ ni' = 1
    /\ pc' = "notify"
    /\ UNCHANGED <<storeVars, ri, cur>>

\* faulty variant: after a failed Save the same result is taken up again
Run_Save_Err_Retry ==
    /\ lastCall' = Call("Save", TRUE, ri, 0)
    /\ resultCalls' = [resultCalls EXCEPT ![ri] = <<>>]
    /\ pc' = "result"
    /\ UNCHANGED <<storeVars, ri, ni, cur>>

\* err = b.Storer.Save(result); err != nil
Run_Save_Err ==
    /\ lastCall' = Call("Save", TRUE, ri, 0)
    /\ resultCalls' = [resultCalls EXCEPT ![ri] = Append(@, "Save:err")]
    /\ NextResult
    /\ UNCHANGED <<storeVars, ni, cur>>

\* ... err == nil: on to the notifier loop
Run_Save_Ok ==
    /\ lastCall' = Call("Save", FALSE, ri, 0)
    /\ resultCalls' = [resultCalls EXCEPT ![ri] = Append(@, "Save")]
    /\ Save(results[ri])
    /\ cur' = IF "runs" \in track THEN [cur EXCEPT !.savedOK = @ \cup {KeyOf(results[ri])}] ELSE cur
    /\ ni' = 1
    /\ IF Len(Notifiers) = 0 THEN NextResult ELSE pc' = "notify" /\ UNCHANGED ri

Run_Save ==
    /\ pc = "save"
    /\ \/ Run_Save_Err
       \/ Run_Save_Ok
    /\ UNCHANGED <<searchVars, botVars, everSet, processMarks,
                   now, keywords, ki, si, lastSearchTime, results, track,
                   turnCalls, notifyLog, turnsStarted, runsInvoked, markAtRunStart,
                   turnStart, prev, notifyCount>>

\* faulty variant: a Notify error breaks out of the notifier loop
AfterNotify_BreakOnErr(err) ==
    /\ ni' = ni + 1
    /\ IF err \/ ni = Len(Notifiers) THEN NextResult ELSE UNCHANGED <<pc, ri>>

\* after notifier.Notify(result) returned err (logged when not nil): the
\* notifier loop goes on, and its index is gone when it is over
AfterNotify(err) ==
    IF ni = Len(Notifiers)
    THEN ni' = 1 /\ NextResult
    ELSE ni' = ni + 1 /\ UNCHANGED <<pc, ri>>

\* for _, notifier := range b.Notifiers { notifier.Notify(result) }
Run_Notify ==
    /\ pc = "notify"
    /\ ni <= Len(Notifiers)
    /\ \E err \in BOOLEAN :
          /\ lastCall' = [Call("Notify", err, ri, 0) EXCEPT !.ni = ni]
          /\ notifyLog' = Append(notifyLog, [notifier |-> Notifiers[ni], err |-> err])
          /\ AfterNotify(err)
    /\ resultCalls' = [resultCalls EXCEPT ![ri] = Append(@, "Notify")]
    /\ notifyCount' = IF "runs" \in track
                       THEN [notifyCount EXCEPT ![ni, KeyOf(results[ri])] = @ + 1]
                       ELSE notifyCount
    /\ UNCHANGED <<searchVars, botVars, everSet, processMarks,
                   storeVars, now, keywords, ki, si, lastSearchTime, results, track,
                   turnCalls, turnsStarted, runsInvoked, markAtRunStart, turnStart,
                   cur, prev>>

\* b.Storer.SetLastSearchTime(provider.Platform(), time.Now().Unix()); err != nil
Run_SetLastSearchTime_Err ==
    /\ lastCall' = Call("SetLastSearchTime", TRUE, 0, now)
    /\ turnCalls' = Append(turnCalls, "SetLastSearchTime:err")
    /\ UNCHANGED <<storeVars, everSet, processMarks>>

\* ... err == nil
Run_SetLastSearchTime_Ok ==
    /\ lastCall' = Call("SetLastSearchTime", FALSE, 0, now)
    /\ turnCalls' = Append(turnCalls, "SetLastSearchTime")
    /\ SetLastSearchTime(Searchers[si], now)
    /\ everSet' = everSet \cup {Searchers[si]}
    /\ processMarks' = IF "writes" \in track
                       THEN [processMarks EXCEPT !.written[Searchers[si]] = now]
                       ELSE processMarks

\* the result loop is over: write the watermark, end of the turn
Run_SetLastSearchTime ==
    /\ pc = "result"
    /\ ri > Len(results)
    /\ \/ Run_SetLastSearchTime_Err
       \/ Run_SetLastSearchTime_Ok
    /\ NextProvider
    /\ notifyLog' = <<>>
    /\ UNCHANGED <<searchVars, botVars, now, keywords, ki, lastSearchTime, results, ri, ni, track,
                   resultCalls, turnsStarted, runsInvoked, markAtRunStart,
                   turnStart, cur, prev, notifyCount>>

\* the provider loop is over: Run returns to main's keyword loop
Run_Return ==
    /\ pc = "turn"
    /\ si > Len(Searchers)
    /\ ki' = ki + 1
    /\ pc' = "main"
    /\ lastCall' = NoCall
    /\ turnCalls' = <<>>
    /\ resultCalls' = <<>>
    /\ notifyLog' = <<>>
    /\ results' = <<>>
    /\ turnStart' = 0
    /\ UNCHANGED <<searchVars, botVars, everSet, processMarks,
                   storeVars, now, keywords, si, lastSearchTime, ri, ni, track,
                   turnsStarted, runsInvoked, markAtRunStart, cur, prev, notifyCount>>

\* a second of wall-clock time passes
Tick ==
    /\ now < MaxTime
    /\ now' = now + 1
    /\ UNCHANGED <<searchVars, botVars, storeVars, ctlVars, histVars>>

(***************************************************************************)
(* package search: a searcher is built, then its Search is called.         *)
(***************************************************************************)
\* a constructor is entered; all but NewBlueskySearcher are one step
NewSearcher ==
    /\ spc = "new"
    /\ \E v \in Variants :
          /\ variant' = v
          /\ IF v = "Bluesky"
             THEN /\ spc' = "auth"
                  /\ accessToken' = ""
             ELSE IF v = "Reddit"
             THEN \E answer \in AuthAnswers :
                     IF answer = "200"
                     THEN spc' = "ready" /\ accessToken' = "token"
                     ELSE spc' = "failed" /\ accessToken' = ""
             ELSE /\ spc' = "ready"
                  /\ accessToken' = IF v = "Fediverse" THEN "token" ELSE ""
    /\ authTry' = 0
    /\ UNCHANGED <<storeVars, now, ctlVars, histVars, botVars, authLog, sleeps, searchCall>>

\* NewBlueskySearcher: err := searcher.authenticate(username, password),
\* with i < maxRetries
NewBlueskySearcher_Authenticate ==
    /\ spc = "auth"
    /\ authTry < maxRetries
    /\ \E answer \in AuthAnswers :
          /\ authLog' = Append(authLog, answer)
          /\ IF authenticate(answer) = "nil"
             THEN /\ accessToken' = "accessJwt"
                  /\ spc' = "ready"
             ELSE /\ accessToken' = accessToken
                  /\ spc' = IF IsRateLimit(authenticate(answer)) THEN "sleep" ELSE "failed"
    /\ UNCHANGED <<storeVars, now, ctlVars, histVars, botVars, variant, authTry, sleeps, searchCall>>

\* faulty variant: the same delay after every rate-limited attempt
NewBlueskySearcher_Sleep_Flat ==
    /\ spc = "sleep"
    /\ sleeps' = Append(sleeps, retryDelaySeconds)
    /\ authTry' = authTry + 1
    /\ spc' = "auth"
    /\ UNCHANGED <<storeVars, now, ctlVars, histVars, botVars, variant, accessToken, authLog, searchCall>>

\* NewBlueskySearcher: time.Sleep(retryDelay); continue
NewBlueskySearcher_Sleep ==
    /\ spc = "sleep"
    /\ sleeps' = Append(sleeps, retryDelaySeconds * (authTry + 1))
    /\ authTry' = authTry + 1
    /\ spc' = "auth"
    /\ UNCHANGED <<storeVars, now, ctlVars, histVars, botVars, variant, accessToken, authLog, searchCall>>

\* faulty variant: a constructor out of attempts returns an error
NewBlueskySearcher_Exhausted_Fails ==
    /\ spc = "auth"
    /\ authTry >= maxRetries
    /\ spc' = "failed"
    /\ UNCHANGED <<storeVars, now, ctlVars, histVars, botVars, variant, authTry, accessToken,
                   authLog, sleeps, searchCall>>

\* NewBlueskySearcher: the loop is over, return searcher, nil
NewBlueskySearcher_Exhausted ==
    /\ spc = "auth"
    /\ authTry >= maxRetries
    /\ spc' = "ready"
    /\ UNCHANGED <<storeVars, now, ctlVars, histVars, botVars, variant, authTry, accessToken,
                   authLog, sleeps, searchCall>>

\* Search is called on the searcher that was built
Searcher_Search ==
    /\ spc = "ready"
    /\ \E keyword \in Keywords, afterEpochSecs \in 0..MaxTime, answer \in SearchAnswers :
          searchCall' =
              [made |-> TRUE, keyword |-> keyword, afterEpochSecs |-> afterEpochSecs,
               answer |-> answer, clock |-> now,
               out |-> Search(variant, accessToken, keyword, afterEpochSecs, answer, now)]
    /\ UNCHANGED <<storeVars, now, ctlVars, histVars, botVars, variant, spc, authTry, accessToken,
                   authLog, sleeps>>

(***************************************************************************)
(* package storage: calls on the Storer, whoever makes them.               *)
(***************************************************************************)
\* the place of a platform in the configuration
SearcherIndex(platform) == CHOOSE i \in 1..Len(Searchers) : Searchers[i] = platform

StorerCall(op, err, platform, arg) ==
    [op |-> op, err |-> err, si |-> SearcherIndex(platform), ri |-> 0, ni |-> 0, arg |-> arg]

\* Storer.Save(result)
Storer_Save ==
    /\ \E p \in Platforms, k \in Keywords, u \in URLs, err \in BOOLEAN :
          /\ lastCall' = StorerCall("Save", err, p, 0)
          /\ IF err THEN UNCHANGED storeVars ELSE Save(SearchResult(p, k, u))
    /\ UNCHANGED <<searchVars, botVars, now, ctlVars, turnCalls, resultCalls, notifyLog,
                   turnsStarted, runsInvoked, markAtRunStart, turnStart, everSet,
                   processMarks, cur, prev, notifyCount>>

\* Storer.SetLastSearchTime(platform, epochTime)
Storer_SetLastSearchTime ==
    /\ \E p \in Platforms, e \in Epochs, err \in BOOLEAN :
          /\ lastCall' = StorerCall("SetLastSearchTime", err, p, e)
          /\ IF err
             THEN UNCHANGED <<storeVars, everSet>>
             ELSE /\ SetLastSearchTime(p, e)
                  /\ everSet' = everSet \cup {p}
    /\ UNCHANGED <<searchVars, botVars, now, ctlVars, turnCalls, resultCalls, notifyLog,
                   turnsStarted, runsInvoked, markAtRunStart, turnStart, processMarks,
                   cur, prev, notifyCount>>

(***************************************************************************)
(* Bot.Run of concurrent instances against one store.  A step of an        *)
(* instance is one call on the Storer together with the code that follows  *)
(* it up to the next call on the Storer.                                   *)
(***************************************************************************)
\* b.Run(keyword) is called on an instance
Bot_Run(b) ==
    /\ bots[b].pc = "idle"
    /\ \E k \in Keywords :
          bots' = [bots EXCEPT ![b] = [IdleBot EXCEPT !.pc = "turn", !.keyword = k]]
    /\ UNCHANGED <<storeVars, now, ctlVars, histVars, searchVars, watermarksWritten>>

\* GetLastSearchTime, then Search when it returned no error
Bot_GetLastSearchTime(b) ==
    /\ bots[b].pc = "turn"
    /\ bots[b].si <= Len(Searchers)
    /\ \/ bots' = [bots EXCEPT ![b].si = @ + 1, ![b].lastSearchTime = 0, ![b].results = <<>>]
       \/ \E urls \in SeqsUpTo(URLs, MaxResults) :
             bots' = [bots EXCEPT
                         ![b].lastSearchTime = GetLastSearchTime(Searchers[bots[b].si]),
                         ![b].results =
                             [i \in 1..Len(urls) |->
                                 SearchResult(Searchers[bots[b].si], bots[b].keyword, urls[i])],
                         ![b].ri = 1,
                         ![b].pc = "result"]
    /\ UNCHANGED <<storeVars, now, ctlVars, histVars, searchVars, watermarksWritten>>

\* Exists for the result at hand
Bot_Exists(b) ==
    /\ bots[b].pc = "result"
    /\ bots[b].ri <= Len(bots[b].results)
    /\ \/ bots' = [bots EXCEPT ![b].ri = @ + 1]
       \/ bots' = IF Exists(bots[b].results[bots[b].ri].Platform, bots[b].results[bots[b].ri].URL)
                  THEN [bots EXCEPT ![b].ri = @ + 1]
                  ELSE [bots EXCEPT ![b].pc = "save"]
    /\ UNCHANGED <<storeVars, now, ctlVars, histVars, searchVars, watermarksWritten>>

\* Save, then the notifier loop when it returned no error
Bot_Save(b) ==
    /\ bots[b].pc = "save"
    /\ bots' = [bots EXCEPT ![b].ri = @ + 1, ![b].pc = "result"]
    /\ \/ UNCHANGED storeVars
       \/ Save(bots[b].results[bots[b].ri])
    /\ UNCHANGED <<now, ctlVars, histVars, searchVars, watermarksWritten>>

\* SetLastSearchTime(provider.Platform(), time.Now().Unix()) after the result loop
Bot_SetLastSearchTime(b) ==
    /\ bots[b].pc = "result"
    /\ bots[b].ri > Len(bots[b].results)
    /\ bots' = [bots EXCEPT ![b].si = @ + 1, ![b].pc = "turn", ![b].results = <<>>,
                            ![b].ri = 1, ![b].lastSearchTime = 0]
    /\ \/ UNCHANGED <<storeVars, watermarksWritten>>
       \/ /\ SetLastSearchTime(Searchers[bots[b].si], now)
          /\ watermarksWritten' = watermarksWritten \cup {<<Searchers[bots[b].si], now>>}
    /\ UNCHANGED <<now, ctlVars, histVars, searchVars>>

\* the provider loop of an instance is over
Bot_Return(b) ==
    /\ bots[b].pc = "turn"
    /\ bots[b].si > Len(Searchers)
    /\ bots' = [bots EXCEPT ![b] = [IdleBot EXCEPT !.pc = "done"]]
    /\ UNCHANGED <<storeVars, now, ctlVars, histVars, searchVars, watermarksWritten>>

Next ==
    \/ Main_Start
    \/ Main_Run
    \/ Main_Exit
    \/ Run_GetLastSearchTime
    \/ Run_Search
    \/ Run_Exists
    \/ Run_Save
    \/ Run_Notify
    \/ Run_SetLastSearchTime
    \/ Run_Return
    \/ Tick

Spec == Init /\ [][Next]_vars

\* The same program with the per-Run bookkeeping kept, for the claims that
\* compare two Runs.  These claims do not read the clock, so the job is taken
\* to run within one second, on a fresh store.
InitRerun == Start({"runs"}, {-1})

NextRerun ==
    \/ Main_Start
    \/ Main_Run
    \/ Main_Exit
    \/ Run_GetLastSearchTime
    \/ Run_Search
    \/ Run_Exists
    \/ Run_Save
    \/ Run_Notify
    \/ Run_SetLastSearchTime
    \/ Run_Return

SpecRerun == InitRerun /\ [][NextRerun]_vars

\* The search package on its own: one searcher is built and its Search is
\* called, with every answer of the platform, at any time of the clock.
InitSearchers == Start({}, {-1})

NextSearchers ==
    \/ NewSearcher
    \/ NewBlueskySearcher_Authenticate
    \/ NewBlueskySearcher_Sleep
    \/ NewBlueskySearcher_Exhausted
    \/ Searcher_Search
    \/ Tick

SpecSearchers == InitSearchers /\ [][NextSearchers]_vars

\* The same program with the time at which each turn began kept.
InitClock == Start({"clock"}, InitMarks)

SpecClock == InitClock /\ [][Next]_vars

\* The Storer on its own: Save and SetLastSearchTime are called with any
\* arguments, in any order, on the store an earlier invocation left.
InitStorer == Start({}, InitMarks)

NextStorer ==
    \/ Storer_Save
    \/ Storer_SetLastSearchTime

SpecStorer == InitStorer /\ [][NextStorer]_vars

\* The same program with the watermarks a process found and wrote kept.
InitKeywords == Start({"writes"}, InitMarks)

SpecKeywords == InitKeywords /\ [][Next]_vars

\* The same program with searchers that return only posts created after the
\* sinceEpoch they are passed.
InitStrict == Start({}, InitMarks)

NextStrict ==
    \/ Main_Start
    \/ Main_Run
    \/ Main_Exit
    \/ Run_GetLastSearchTime
    \/ Run_Search_Strict
    \/ Run_Exists
    \/ Run_Save
    \/ Run_Notify
    \/ Run_SetLastSearchTime
    \/ Run_Return
    \/ Tick

SpecStrict == InitStrict /\ [][NextStrict]_vars

\* Two instances, each running Run once, against the store an earlier
\* invocation left.
InitBots == Start({"bots"}, InitMarks)

NextBots ==
    \/ \E b \in Bots : Bot_Run(b)
    \/ \E b \in Bots : Bot_GetLastSearchTime(b)
    \/ \E b \in Bots : Bot_Exists(b)
    \/ \E b \in Bots : Bot_Save(b)
    \/ \E b \in Bots : Bot_SetLastSearchTime(b)
    \/ \E b \in Bots : Bot_Return(b)
    \/ Tick

SpecBots == InitBots /\ [][NextBots]_vars

\* a step of Bot.Run: a call on a collaborator returns and Run goes on
RunStep ==
    \/ Run_GetLastSearchTime
    \/ Run_Search
    \/ Run_Exists
    \/ Run_Save
    \/ Run_Notify
    \/ Run_SetLastSearchTime
    \/ Run_Return

\* The program when every call Run makes returns: Run is sequential code, so
\* a Run that can take a step takes it.  No branch of Run reads the clock, so
\* the job is taken to run within one second.
InitFair == Start({}, InitMarks)

SpecFair == InitFair /\ [][NextRerun]_vars /\ WF_vars(RunStep)

(***************************************************************************)
(* Properties.                                                             *)
(***************************************************************************)
\* a Run has returned and no other has begun: cur, prev and notifyCount
\* describe that Run and the one before it
RunEnded == pc = "main" /\ ki > 1

\* the turn of Searchers[si - 1] is over and the next has not begun
TurnEnded == pc = "turn" /\ turnCalls # <<>>

\* C1: No-renotify-on-rerun.  When a Run of keyword k has ended, the Run
\* before it was for the same k, and the later Run's searches returned no
\* key the earlier Run's searches had not returned, then no notifier was
\* called in the later Run for a key whose Save succeeded in the earlier Run.
C1_NoRenotifyOnRerun ==
    (/\ RunEnded
     /\ prev.keyword = cur.keyword
     /\ cur.returned \subseteq prev.returned)
    => \A k \in prev.savedOK : \A n \in 1..Len(Notifiers) : notifyCount[n, k] = 0

\* C2: within one Run every notifier is called at most once per
\* (platform, url) key.
C2_NotifyAtMostOncePerKey ==
    \A n \in 1..Len(Notifiers) : \A k \in Keys : notifyCount[n, k] <= 1

\* the dedup index after Save(result) returned nil, for both Storers
SavedInto(db, result) ==
    IF dbType = "sqlite" THEN SQLiteSave(db, result) ELSE DynamoSave(db, result)

ExistsIn(db, platform, url) ==
    IF dbType = "sqlite" THEN SQLiteExists(db, platform, url)
    ELSE DynamoExists(db, platform, url)

RecordsIn(db, platform, url) ==
    IF dbType = "sqlite"
    THEN {row \in db : row.Platform = platform /\ row.URL = url}
    ELSE GetItem(db, platform, url)

DedupIndex == IF dbType = "sqlite" THEN search_results ELSE table

\* C3: Dedup idempotence.  From every store state the program reaches and
\* for every result r: after Save(r), Exists(r.platform, r.url) is true,
\* and after a second Save(r) exactly one record is retrievable under
\* (r.platform, r.url).
C3_DedupIdempotence ==
    \A p \in Platforms, k \in Keywords, u \in URLs :
        LET r == SearchResult(p, k, u)
            once == SavedInto(DedupIndex, r)
            twice == SavedInto(once, r)
        IN  /\ ExistsIn(once, p, u)
            /\ ExistsIn(twice, p, u)
            /\ Cardinality(RecordsIn(twice, p, u)) = 1

Range(seq) == {seq[i] : i \in 1..Len(seq)}

\* the key of the i-th result of the current turn
ResultKey(i) == KeyOf(results[i])

\* C4: Save failure blocks notification.  Right after a Save that returned
\* an error the Run is at the next result, no notifier has been called and
\* the store has no record under the result's key; and a result whose Save
\* failed never gets any further call in its turn.
C4_SaveFailureBlocksNotify ==
    /\ (lastCall.op = "Save" /\ lastCall.err) =>
          /\ pc = "result"
          /\ ri = lastCall.ri + 1
          /\ notifyLog = <<>>
          /\ ~Exists(ResultKey(lastCall.ri)[1], ResultKey(lastCall.ri)[2])
    /\ \A i \in 1..Len(resultCalls) :
          "Save:err" \in Range(resultCalls[i]) =>
              resultCalls[i] = <<"Exists:false", "Save:err">>

\* a Save failed and the turn has another result to go on with
C4_Witness ==
    /\ lastCall.op = "Save"
    /\ lastCall.err
    /\ ri <= Len(results)

NotifierNames == [i \in 1..Len(notifyLog) |-> notifyLog[i].notifier]

AllNotified == [i \in 1..Len(Notifiers) |-> "Notify"]

\* C5: Notifier isolation.  For a result whose Save succeeded the notifiers
\* are called in configuration order, each exactly once, whatever errors the
\* earlier ones returned; and a Notify call leaves the store as it was.
C5_NotifierIsolation ==
    /\ [](/\ pc = "notify" => NotifierNames = SubSeq(Notifiers, 1, ni - 1)
          /\ (lastCall.op = "Notify" /\ pc # "notify") => NotifierNames = Notifiers
          /\ \A i \in 1..Len(resultCalls) :
                ("Save" \in Range(resultCalls[i]) /\ i < ri) =>
                    resultCalls[i] = <<"Exists:false", "Save">> \o AllNotified)
    /\ [][lastCall'.op = "Notify" /\ lastCall' # lastCall => UNCHANGED storeVars]_vars

\* the first notifier failed and the second was called all the same
C5_Witness ==
    /\ lastCall.op = "Notify"
    /\ Len(notifyLog) = 2
    /\ notifyLog[1].err
    /\ notifyLog[2].notifier = Notifiers[2]
    /\ Exists(ResultKey(lastCall.ri)[1], ResultKey(lastCall.ri)[2])

\* C6: Exists failure skips only that result.  Right after an Exists that
\* returned an error the Run is at the next result of the same turn, and the
\* result gets neither a Save nor a Notify call.
C6_ExistsFailureSkipsResult ==
    /\ (lastCall.op = "Exists" /\ lastCall.err) =>
          /\ pc = "result"
          /\ si = lastCall.si
          /\ ri = lastCall.ri + 1
    /\ \A i \in 1..Len(resultCalls) :
          "Exists:err" \in Range(resultCalls[i]) => resultCalls[i] = <<"Exists:err">>

\* an Exists failed and the turn has another result to go on with
C6_Witness ==
    /\ lastCall.op = "Exists"
    /\ lastCall.err
    /\ ri <= Len(results)

\* C7: a failed watermark read skips the platform.  Right after a
\* GetLastSearchTime that returned an error, the Run is at the next searcher,
\* the turn has made no other call, and the platform's stored watermark is
\* the one it had when the Run began.
C7_WatermarkReadFailureSkipsPlatform ==
    (lastCall.op = "GetLastSearchTime" /\ lastCall.err) =>
        /\ pc = "turn"
        /\ si = lastCall.si + 1
        /\ turnCalls = <<"GetLastSearchTime:err">>
        /\ resultCalls = <<>>
        /\ notifyLog = <<>>
        /\ GetLastSearchTime(Searchers[lastCall.si]) = markAtRunStart[Searchers[lastCall.si]]

\* the first platform's watermark read failed with a watermark stored, and
\* the second platform is still to come
C7_Witness ==
    /\ lastCall.op = "GetLastSearchTime"
    /\ lastCall.err
    /\ lastCall.si = 1
    /\ si <= Len(Searchers)
    /\ GetLastSearchTime(Searchers[1]) > 0

\* C8: Failure isolation.  The turns begun in a Run are the configured
\* searchers in order, all of them once the provider loop is over; when a
\* turn whose Search succeeded is over, Exists has been called for every
\* result; and when the process exits, Run has been invoked for every keyword.
C8_FailureIsolation ==
    /\ Len(turnsStarted) <= Len(Searchers)
    /\ turnsStarted = SubSeq(Searchers, 1, Len(turnsStarted))
    /\ ((pc = "turn" /\ si > Len(Searchers)) \/ RunEnded) => turnsStarted = Searchers
    /\ (TurnEnded /\ Len(turnCalls) >= 2 /\ turnCalls[2] = "Search") =>
          /\ Len(resultCalls) = Len(results)
          /\ \A i \in 1..Len(results) :
                /\ resultCalls[i] # <<>>
                /\ resultCalls[i][1] \in {"Exists:err", "Exists:true", "Exists:false"}
    /\ pc \in {"main", "exit"} => runsInvoked = SubSeq(keywords, 1, ki - 1)
    /\ pc = "exit" => runsInvoked = keywords

\* the first turn's Search failed, the last turn's watermark read failed, and
\* the provider loop of the second keyword's Run has still come to its end
C8_Witness ==
    /\ pc = "turn"
    /\ si > Len(Searchers)
    /\ ki = 2
    /\ turnsStarted = Searchers
    /\ lastCall.op = "GetLastSearchTime"
    /\ lastCall.err

\* C9: Watermark monotonicity.  When a Run has ended, GetLastSearchTime(p)
\* is at least what it was when the Run began, for every platform p.
C9_WatermarkMonotone ==
    RunEnded => \A p \in Platforms : GetLastSearchTime(p) >= markAtRunStart[p]

\* C10 as stated: a turn whose Search failed still ends with a
\* SetLastSearchTime call.
C10_SetAfterSearchError ==
    (TurnEnded /\ Len(turnCalls) >= 2 /\ turnCalls[2] = "Search:err") =>
        turnCalls[Len(turnCalls)] \in {"SetLastSearchTime", "SetLastSearchTime:err"}

\* C10 as amended: right after a Search that returned an error the Run is at
\* the next searcher, the turn has made no call but GetLastSearchTime and
\* Search, and the platform's stored watermark is still the one read at the
\* start of the turn.
C10_SearchErrorKeepsWatermark ==
    (lastCall.op = "Search" /\ lastCall.err) =>
        /\ pc = "turn"
        /\ si = lastCall.si + 1
        /\ turnCalls = <<"GetLastSearchTime", "Search:err">>
        /\ resultCalls = <<>>
        /\ GetLastSearchTime(Searchers[lastCall.si]) = lastCall.arg

\* the first platform's Search failed at a time later than its stored watermark
C10_Witness ==
    /\ lastCall.op = "Search"
    /\ lastCall.err
    /\ lastCall.si = 1
    /\ now > lastCall.arg

\* C11: Watermark value is the turn-start time.  The epoch value Run passes
\* to SetLastSearchTime is the wall-clock time at which the platform's turn
\* began, so no post created while the turn was running is older than the
\* written watermark.
C11_WatermarkIsTurnStart ==
    lastCall.op = "SetLastSearchTime" => lastCall.arg = turnStart

\* C12: one watermark read and one watermark write per turn, write last.
\* The first call of a turn is its only GetLastSearchTime; while the results
\* are processed no SetLastSearchTime has been made; a turn whose read and
\* Search succeeded ends with exactly one SetLastSearchTime, made for the
\* turn's platform after every result has had its calls, whatever the number
\* of results.
C12_OneReadOneWriteWriteLast ==
    /\ \A j \in 1..Len(turnCalls) :
          (j = 1) <=> (turnCalls[j] \in {"GetLastSearchTime", "GetLastSearchTime:err"})
    /\ pc \in {"result", "save", "notify"} => turnCalls = <<"GetLastSearchTime", "Search">>
    /\ (TurnEnded /\ Len(turnCalls) >= 2 /\ turnCalls[2] = "Search") =>
          /\ Len(turnCalls) = 3
          /\ turnCalls[3] \in {"SetLastSearchTime", "SetLastSearchTime:err"}
          /\ lastCall.op = "SetLastSearchTime"
          /\ lastCall.si = si - 1
          /\ \A i \in 1..Len(results) : resultCalls[i] # <<>>
    /\ (lastCall.op = "SetLastSearchTime" /\ ~lastCall.err) =>
          GetLastSearchTime(Searchers[lastCall.si]) = lastCall.arg

\* a turn whose Search returned no result has ended with its watermark write
C12_Witness ==
    /\ TurnEnded
    /\ results = <<>>
    /\ turnCalls = <<"GetLastSearchTime", "Search", "SetLastSearchTime">>

\* the calls a result has had once the Run has gone past it
CompleteCalls ==
    {<<"Exists:err">>, <<"Exists:true">>, <<"Exists:false", "Save:err">>,
     <<"Exists:false", "Save">> \o AllNotified}

\* the calls the result being processed has had, by the place in the loop body
CallsSoFar ==
    IF pc = "save" THEN <<"Exists:false">>
    ELSE IF pc = "notify" THEN <<"Exists:false", "Save">> \o SubSeq(AllNotified, 1, ni - 1)
    ELSE <<>>

\* C13: Sequential processing order.  The turn being run is that of the
\* si-th configured searcher and the turns begun before it are those of the
\* searchers before it; results behind the current one have had all their
\* calls, in the order Exists, Save (after Exists returned false), Notify of
\* each notifier (after Save succeeded); results ahead have had none.
C13_SequentialOrder ==
    /\ pc \in {"search", "result", "save", "notify"} =>
          turnsStarted = SubSeq(Searchers, 1, si)
    /\ pc \in {"result", "save", "notify"} =>
          /\ Len(resultCalls) = Len(results)
          /\ \A i \in 1..Len(results) :
                /\ results[i].Platform = Searchers[si]
                /\ i < ri => resultCalls[i] \in CompleteCalls
                /\ i = ri => resultCalls[i] = CallsSoFar
                /\ i > ri => resultCalls[i] = <<>>
    /\ lastCall.op \in {"Exists", "Save", "Notify"} =>
          /\ lastCall.si = si
          /\ lastCall.ri \in {ri - 1, ri}

\* the second platform's second result is at its second notifier, after the
\* first result was saved and notified
C13_Witness ==
    /\ pc = "notify"
    /\ si = 2
    /\ ri = 2
    /\ ni = 2
    /\ resultCalls[1] = <<"Exists:false", "Save">> \o AllNotified

\* C14 as stated: a result whose timestamp is below the watermark passed to
\* Search is neither saved nor notified.
C14_StaleResultDropped ==
    \A i \in 1..Len(resultCalls) :
        results[i].Timestamp < lastSearchTime =>
            /\ "Save" \notin Range(resultCalls[i])
            /\ "Notify" \notin Range(resultCalls[i])

\* C14 as amended: Run does not look at Timestamp.  A returned result whose
\* timestamp is not above the watermark gets its Exists call like any other,
\* and when Exists returned false and Save succeeded it has been saved and
\* passed to every notifier.
C14_StaleResultProcessed ==
    \A i \in 1..Len(resultCalls) :
        (i < ri /\ results[i].Timestamp <= lastSearchTime) =>
            /\ resultCalls[i] # <<>>
            /\ resultCalls[i][1] \in {"Exists:err", "Exists:true", "Exists:false"}
            /\ (resultCalls[i][1] = "Exists:false" /\ "Save:err" \notin Range(resultCalls[i])) =>
                  resultCalls[i] = <<"Exists:false", "Save">> \o AllNotified

\* the watermark lies between the timestamps of the two results returned,
\* neither was stored, and both have been saved and notified
C14_Witness ==
    /\ TurnEnded
    /\ Len(results) = 2
    /\ results[1].Timestamp < lastSearchTime
    /\ results[2].Timestamp > lastSearchTime
    /\ \A i \in 1..2 : resultCalls[i] = <<"Exists:false", "Save">> \o AllNotified
    /\ \A i \in 1..2 : Exists(results[i].Platform, results[i].URL)

\* NewBlueskySearcher has returned
Constructed == spc \in {"ready", "failed"}

\* every authentication attempt NewBlueskySearcher could make was rate-limited
AllRateLimited ==
    /\ variant = "Bluesky"
    /\ Len(authLog) = maxRetries
    /\ \A n \in 1..Len(authLog) : authLog[n] = "429"

\* C15: Degradation on rate limiting.  A Bluesky constructor whose every
\* authentication attempt was answered 429 returns a searcher and no error,
\* and a Search call on that searcher returns no result and no error
\* without sending a request.
C15_DegradedOnRateLimit ==
    (AllRateLimited /\ Constructed) =>
        /\ spc = "ready"
        /\ accessToken = ""
        /\ searchCall.made =>
              /\ searchCall.out.results = <<>>
              /\ ~searchCall.out.err
              /\ ~searchCall.out.contacted

\* the degraded searcher was asked to search while the platform had posts
\* newer than afterEpochSecs to answer with
C15_Witness ==
    /\ AllRateLimited
    /\ spc = "ready"
    /\ searchCall.made
    /\ searchCall.answer.status = "200"
    /\ searchCall.answer.parsable
    /\ Newer(searchCall.answer.posts, searchCall.afterEpochSecs) # <<>>

\* C16: Bounded retry with backoff at construction.  NewBlueskySearcher
\* makes at most maxRetries authentication attempts; every attempt but the
\* last made was rate-limited and was followed by a wait of 5*n seconds, n
\* its number; an attempt that succeeds ends construction with a searcher
\* that holds an access token; an attempt that fails otherwise ends
\* construction with an error, with no wait after it.
C16_BoundedRetryWithBackoff ==
    variant = "Bluesky" =>
        /\ Len(authLog) <= maxRetries
        /\ \A n \in 1..Len(sleeps) :
              /\ n <= Len(authLog)
              /\ authLog[n] = "429"
              /\ sleeps[n] = retryDelaySeconds * n
        /\ \A n \in 1..Len(authLog) :
              /\ n < Len(authLog) => (authLog[n] = "429" /\ Len(sleeps) >= n)
              /\ authLog[n] = "200" =>
                    /\ n = Len(authLog)
                    /\ spc = "ready"
                    /\ accessToken # ""
                    /\ Len(sleeps) = n - 1
              /\ authLog[n] \notin {"200", "429"} =>
                    /\ n = Len(authLog)
                    /\ spc = "failed"
                    /\ Len(sleeps) = n - 1

\* two rate-limited attempts, waits of 5 and 10 seconds, then a success
C16_Witness ==
    /\ variant = "Bluesky"
    /\ authLog = <<"429", "429", "200">>
    /\ sleeps = <<retryDelaySeconds, 2 * retryDelaySeconds>>
    /\ spc = "ready"

\* the platform did not answer the search request with a body that decodes
UpstreamFailed == searchCall.made /\ searchCall.answer \in FailedAnswers

\* C17: Upstream failures are never surfaced by Search.  Whatever the
\* variant, a Search call the platform answered with 429, another
\* non-success status, an unparsable body or not at all returns no result
\* and no error.
C17_UpstreamFailureNotSurfaced ==
    UpstreamFailed =>
        /\ searchCall.out.results = <<>>
        /\ ~searchCall.out.err

\* C18: Strict-newer filtering by every Searcher.  Whatever the variant, the
\* answer and afterEpochSecs, every result Search returns has a Timestamp
\* above afterEpochSecs, and that Timestamp is the creation time of the post
\* the result was built from.
C18_StrictlyNewerOwnTimestamp ==
    searchCall.made =>
        \A n \in 1..Len(searchCall.out.results) :
            /\ searchCall.out.results[n].Timestamp > searchCall.afterEpochSecs
            /\ searchCall.out.results[n].Timestamp = CreatedAt(searchCall.out.hits[n])

\* C19: Absent watermark reads as 0.  For a platform for which no
\* SetLastSearchTime has ever succeeded, GetLastSearchTime returns 0, and a
\* turn of that platform whose read succeeded calls Search with 0.
C19_AbsentWatermarkReadsZero ==
    /\ \A p \in Platforms : p \notin everSet => GetLastSearchTime(p) = 0
    /\ (pc = "search" /\ Searchers[si] \notin everSet) => lastSearchTime = 0

\* the watermark index of the Storer in use
WatermarkIndex == IF dbType = "sqlite" THEN last_search_time ELSE table

\* the watermark index after SetLastSearchTime(platform, epochTime) returned nil
SetInto(db, platform, epochTime) ==
    IF dbType = "sqlite" THEN SQLiteSetLastSearchTime(db, platform, epochTime)
    ELSE DynamoSetLastSearchTime(db, platform, epochTime)

GetFrom(db, platform) ==
    IF dbType = "sqlite" THEN SQLiteGetLastSearchTime(db, platform)
    ELSE DynamoGetLastSearchTime(db, platform)

WatermarkRecordsIn(db, platform) ==
    IF dbType = "sqlite" THEN {row \in db : row.Platform = platform}
    ELSE GetItem(db, platform, "LastSearchTime")

\* C20: Watermark upsert round-trip.  From every store state the program
\* reaches, for every platform p and epoch e: after SetLastSearchTime(p, e)
\* GetLastSearchTime(p) is e, there is one watermark record for p, and
\* GetLastSearchTime of every other platform is what it was; a
\* SetLastSearchTime that was made left the store so.
C20_WatermarkUpsertRoundTrip ==
    /\ \A p \in Platforms, e \in Epochs :
          LET after == SetInto(WatermarkIndex, p, e)
          IN  /\ GetFrom(after, p) = e
              /\ Cardinality(WatermarkRecordsIn(after, p)) = 1
              /\ \A q \in Platforms \ {p} :
                    /\ GetFrom(after, q) = GetFrom(WatermarkIndex, q)
                    /\ WatermarkRecordsIn(after, q) = WatermarkRecordsIn(WatermarkIndex, q)
    /\ (lastCall.op = "SetLastSearchTime" /\ ~lastCall.err) =>
          /\ GetLastSearchTime(Searchers[lastCall.si]) = lastCall.arg
          /\ Cardinality(WatermarkRecordsIn(WatermarkIndex, Searchers[lastCall.si])) = 1

\* the watermark of the first platform has been set to a value of several
\* digits while the second platform holds another one
C20_Witness ==
    /\ lastCall.op = "SetLastSearchTime"
    /\ ~lastCall.err
    /\ lastCall.si = 1
    /\ lastCall.arg = 1700000000
    /\ GetLastSearchTime(Searchers[1]) = lastCall.arg
    /\ GetLastSearchTime(Searchers[2]) = 12

\* C26: Every backoff wait is followed by a retry.  NewBlueskySearcher never
\* waits after its last permitted authentication attempt, so a constructor
\* that was rate-limited on all maxRetries attempts has made exactly
\* maxRetries - 1 waits, of 5 and 10 seconds, when it returns.
C26_EveryWaitFollowedByRetry ==
    variant = "Bluesky" =>
        /\ Len(sleeps) <= maxRetries - 1
        /\ (AllRateLimited /\ Constructed) =>
              sleeps = <<retryDelaySeconds, 2 * retryDelaySeconds>>

\* the watermark index after Save(result) returned nil: SQLiteStorer.Save
\* writes search_results only, DynamoDBStorer.Save puts into the one table
WatermarkIndexAfterSave(result) ==
    IF dbType = "sqlite" THEN last_search_time ELSE DynamoSave(table, result)

\* the dedup index after SetLastSearchTime(platform, epochTime) returned nil:
\* SQLiteStorer writes last_search_time only, DynamoDBStorer the one table
DedupIndexAfterSet(platform, epochTime) ==
    IF dbType = "sqlite" THEN search_results
    ELSE DynamoSetLastSearchTime(table, platform, epochTime)

\* C25: the dedup index and the watermark index are independent in every
\* Storer.  From every store state, for every result r (any url, the string
\* "LastSearchTime" included), Save(r) changes no value GetLastSearchTime
\* returns for any platform, and SetLastSearchTime(p, e) changes no value
\* Exists returns for any (platform, url).
C25_IndexesIndependent ==
    /\ \A p \in Platforms, k \in Keywords, u \in URLs :
          \A q \in Platforms :
              GetFrom(WatermarkIndexAfterSave(SearchResult(p, k, u)), q)
                  = GetLastSearchTime(q)
    /\ \A p \in Platforms, e \in Epochs :
          \A q \in Platforms, u \in URLs :
              ExistsIn(DedupIndexAfterSet(p, e), q, u) = Exists(q, u)

\* the watermark the process wrote for platform p with success, -1 when none
Written(p) == processMarks.written[p]

\* C24: the watermark is shared by all keywords of one invocation.  In the
\* Run of a later keyword, the sinceEpoch passed to Search on platform p is
\* the value the SetLastSearchTime at the end of p's turn for the earlier
\* keyword wrote, when that write succeeded; so no time between the watermark
\* stored before the invocation and that value is above the sinceEpoch of
\* the later keyword's Search.
C24_WatermarkSharedByKeywords ==
    /\ (pc = "search" /\ ki >= 2 /\ Written(Searchers[si]) >= 0) =>
          lastSearchTime = Written(Searchers[si])
    /\ (lastCall.op = "Search" /\ ki >= 2 /\ Written(Searchers[lastCall.si]) >= 0) =>
          /\ lastCall.arg = Written(Searchers[lastCall.si])
          /\ \A t \in 0..(MaxTime + 1) :
                (/\ t > processMarks.atStart[Searchers[lastCall.si]]
                 /\ t <= Written(Searchers[lastCall.si])) => ~(t > lastCall.arg)

\* the second keyword's Search on the first platform was passed the time the
\* first keyword's turn wrote, which is later than the watermark the store
\* held when the process started
C24_Witness ==
    /\ lastCall.op = "Search"
    /\ ~lastCall.err
    /\ ki = 2
    /\ keywords = <<"k1", "k2">>
    /\ lastCall.si = 1
    /\ Written(Searchers[1]) > processMarks.atStart[Searchers[1]]
    /\ lastCall.arg = Written(Searchers[1])

\* the calls of a result that Run skipped because the Storer failed
SkippedCalls == {<<"Exists:err">>, <<"Exists:false", "Save:err">>}

\* C23: No result is lost after a storage failure.  With searchers that
\* return only posts created after the sinceEpoch they are passed, a result
\* that the Run skipped because Exists or Save returned an error, and that
\* the store does not hold, is still newer than its platform's stored
\* watermark, so that the Search of a later Run returns it again and it is
\* persisted and notified once the Storer works.
C23_SkippedResultExaminedAgain ==
    \A i \in 1..Len(resultCalls) :
        (/\ i < ri
         /\ resultCalls[i] \in SkippedCalls
         /\ results[i].Timestamp > lastSearchTime
         /\ ~Exists(results[i].Platform, results[i].URL)) =>
            results[i].Timestamp > GetLastSearchTime(results[i].Platform)

\* C22: No corruption under concurrent runs.  While two instances run Run
\* against one store, interleaved call by call, the store never holds more
\* than one dedup record under a (platform, url) key, and every watermark it
\* holds is a value some SetLastSearchTime call wrote for that platform.
C22_NoCorruptionUnderConcurrentRuns ==
    /\ \A p \in Platforms, u \in URLs : Cardinality(RecordsIn(DedupIndex, p, u)) <= 1
    /\ \A p \in Platforms :
          /\ Cardinality(WatermarkRecordsIn(WatermarkIndex, p)) <= 1
          /\ WatermarkRecordsIn(WatermarkIndex, p) # {} =>
                <<p, GetLastSearchTime(p)>> \in watermarksWritten

\* a Run has been entered and has not returned
InRun == pc \in {"turn", "search", "result", "save", "notify"}

\* C21: Run terminates.  When every call on a Searcher, the Storer and a
\* Notifier returns and every Search returns a finite sequence, a Run that
\* was entered returns to main's keyword loop, whatever errors the calls
\* returned.
C21_RunTerminates == InRun ~> (pc = "main")

\* the provider loop is over after a last turn in which Exists failed for one
\* result, Save failed for another and SetLastSearchTime failed
C21_Witness ==
    /\ pc = "turn"
    /\ si > Len(Searchers)
    /\ Len(results) = 2
    /\ resultCalls[1] = <<"Exists:err">>
    /\ resultCalls[2] = <<"Exists:false", "Save:err">>
    /\ lastCall.op = "SetLastSearchTime"
    /\ lastCall.err

====
